---- MODULE Spec2Model ----
(***************************************************************************)
(* StyleSense app.py: a Flask application with two views.  index() reads   *)
(* API_KEY and index.html, inserts a script block into the document and    *)
(* hands the text to render_template_string; static_files(path) calls      *)
(* send_from_directory('.', path).  The main block prints a banner and     *)
(* starts the server.                                                      *)
(*                                                                         *)
(* Texts are sequences of one-character strings.  The two literal parts of *)
(* the f-string of lines 21-29 and the fixed response bodies are kept as   *)
(* single elements (they contain none of the markers the program or the    *)
(* template engine looks for).  The working directory of the process is    *)
(* the directory of app.py, as the banner's instructions assume.           *)
(***************************************************************************)
EXTENDS Naturals, Sequences, FiniteSets

VARIABLES
  pc,          \* "boot" before the main block ran, "serving" inside app.run
  env,         \* os.environ['API_KEY']: [set, val]
  current_key, \* the main block's current_key (line 49)
  banner,      \* what the main block printed about the key (lines 50-56)
  files,       \* the files on disk: location -> [exists, data]
  resp         \* the response the latest step produced, NoResp if it was no request

vars == <<pc, env, current_key, banner, files, resp>>

----------------------------------------------------------------------------
(* Bounds of the model *)

MaxDocLen == 2

----------------------------------------------------------------------------
(* Texts *)

HEAD == <<"<", "h", "e", "a", "d", ">">>
OPEN == <<"{", "{">>
CLOSE == <<"}", "}">>
LF == <<"\n">>
CRLF == <<"\r", "\n">>

Fragments == {HEAD, <<"7">>, OPEN, CLOSE, LF, CRLF}

RECURSIVE Flatten(_)
Flatten(ss) == IF ss = <<>> THEN <<>> ELSE Head(ss) \o Flatten(Tail(ss))

FragSeqs(F, n) == UNION {[1..k -> F] : k \in 0..n}

\* the documents made of at most MaxDocLen of the fragments F
DocsOver(F) == {Flatten(fs) : fs \in FragSeqs(F, MaxDocLen)}

\* index.html as the deployer may have written it
Docs == DocsOver(Fragments)

\* the documents without template syntax and without newlines
PlainDocs == DocsOver({HEAD, <<"7">>})

Unset == [set |-> FALSE, val |-> <<>>]
KeyValues == {<<>>, <<"a", "b", "c">>, <<"{", "{", "7", "}", "}">>}
EnvValues == {Unset} \cup {[set |-> TRUE, val |-> k] : k \in KeyValues}

\* the values of API_KEY without template syntax
PlainEnvValues == {e \in EnvValues : ~\E i \in 1..Len(e.val) : e.val[i] \in {"{", "}"}}

\* s has pat at position i
MatchAt(s, pat, i) ==
  /\ i >= 1
  /\ i + Len(pat) - 1 <= Len(s)
  /\ \A j \in 1..Len(pat) : s[i + j - 1] = pat[j]

\* pat in s
Contains(s, pat) == \E i \in 1..(Len(s) + 1) : MatchAt(s, pat, i)

\* s.replace(old, new): every non-overlapping occurrence, left to right
RECURSIVE ReplaceFrom(_, _, _, _)
ReplaceFrom(s, old, new, i) ==
  IF i > Len(s) THEN <<>>
  ELSE IF MatchAt(s, old, i) THEN new \o ReplaceFrom(s, old, new, i + Len(old))
  ELSE <<s[i]>> \o ReplaceFrom(s, old, new, i + 1)

Replace(s, old, new) == ReplaceFrom(s, old, new, 1)

\* universal newlines: "\r\n" and "\r" become "\n"
RECURSIVE NewlinesFrom(_, _)
NewlinesFrom(s, i) ==
  IF i > Len(s) THEN <<>>
  ELSE IF s[i] = "\r"
    THEN LF \o NewlinesFrom(s, IF MatchAt(s, CRLF, i) THEN i + 2 ELSE i + 1)
  ELSE <<s[i]>> \o NewlinesFrom(s, i + 1)

\* open('index.html', 'r') ... f.read()
ReadText(data) == NewlinesFrom(data, 1)

----------------------------------------------------------------------------
(* index(): the injected script, lines 21-29 *)

SCRIPT_OPEN == "\n    <script>\n        window.process = {\n            env: {\n                API_KEY: \""
SCRIPT_CLOSE == "\"\n            }\n        };\n    </script>\n    "

injection_script(api_key) == <<SCRIPT_OPEN>> \o api_key \o <<SCRIPT_CLOSE>>

\* lines 32-35: the text handed to render_template_string
InsertScript(html_content, script) ==
  IF Contains(html_content, HEAD)
    THEN Replace(html_content, HEAD, HEAD \o script)
    ELSE script \o html_content

----------------------------------------------------------------------------
(* render_template_string (line 37): the text is compiled and rendered as  *)
(* a Jinja template with the environment's defaults.  The lexer turns      *)
(* every newline sequence into "\n" and drops one trailing newline         *)
(* (keep_trailing_newline is off); "{{" opens a print statement that runs  *)
(* to the next "}}" and is replaced by the value of the expression between *)
(* them; a statement that is not closed or whose content is no expression  *)
(* raises TemplateSyntaxError.  On the texts of this model an expression   *)
(* is well formed exactly when it is one integer literal between optional  *)
(* whitespace: every other character a document, a key or the script can   *)
(* put there ("<", "{", the script's literal parts, a second literal) is   *)
(* a syntax error.                                                         *)

Digits == {"7"}
Blank == {"\n", " "}

IsDigit(ch) == ch \in Digits

StripNewline(t) ==
  IF Len(t) > 0 /\ t[Len(t)] = "\n" THEN SubSeq(t, 1, Len(t) - 1) ELSE t

\* the position of the "}}" closing a print statement whose content starts
\* at i, 0 if the statement is not well formed up to there
RECURSIVE ExprEnd(_, _)
ExprEnd(t, i) ==
  IF i > Len(t) THEN 0
  ELSE IF MatchAt(t, CLOSE, i) THEN i
  ELSE IF t[i] \in Digits \cup Blank THEN ExprEnd(t, i + 1)
  ELSE 0

\* the content is one integer literal
OneInteger(c) ==
  Cardinality({k \in 1..Len(c) : IsDigit(c[k]) /\ (k = 1 \/ ~IsDigit(c[k - 1]))}) = 1

RenderFailed == [ok |-> FALSE, out |-> <<>>]

RECURSIVE RenderFrom(_, _)
RenderFrom(t, i) ==
  IF i > Len(t) THEN [ok |-> TRUE, out |-> <<>>]
  ELSE IF MatchAt(t, OPEN, i)
    THEN LET j == ExprEnd(t, i + 2)
         IN IF j = 0 \/ ~OneInteger(SubSeq(t, i + 2, j - 1)) THEN RenderFailed
            ELSE LET r == RenderFrom(t, j + 2)
                 IN IF r.ok
                      THEN [ok |-> TRUE,
                            out |-> SelectSeq(SubSeq(t, i + 2, j - 1), IsDigit) \o r.out]
                      ELSE RenderFailed
  ELSE LET r == RenderFrom(t, i + 1)
       IN IF r.ok THEN [ok |-> TRUE, out |-> <<t[i]>> \o r.out] ELSE RenderFailed

render_template_string(source) == RenderFrom(StripNewline(NewlinesFrom(source, 1)), 1)

----------------------------------------------------------------------------
(* Files and paths.  A location is the sequence of path segments from the  *)
(* directory of app.py; <<"..", "a.js">> is a file outside it.             *)

IndexLoc == <<"index.html">>
AssetLoc == <<"a.js">>
StaticAssetLoc == <<"static", "a.js">>
OutsideLoc == <<"..", "a.js">>
Locs == {IndexLoc, AssetLoc, StaticAssetLoc, OutsideLoc}

Absent == [exists |-> FALSE, data |-> <<>>]
File(d) == [exists |-> TRUE, data |-> d]
AssetData(l) == IF l = AssetLoc THEN <<"r">> ELSE IF l = StaticAssetLoc THEN <<"s">> ELSE <<"o">>

\* the paths requested, as their segments: files that may exist, a directory,
\* a dot segment, ".." inside the root and ".." leaving it
Paths == {<<"a.js">>, <<"index.html">>, <<"static", "a.js">>, <<"static">>,
          <<".", "a.js">>, <<"static", "..", "a.js">>,
          <<"..", "a.js">>, <<"static", "..", "..", "a.js">>}
\* the URL "/" is the empty path
Urls == {<<>>} \cup Paths

\* posixpath.normpath on the segments of a relative path; <<>> is "."
RECURSIVE NormFrom(_, _, _)
NormFrom(segs, i, acc) ==
  IF i > Len(segs) THEN acc
  ELSE IF segs[i] \in {".", ""} THEN NormFrom(segs, i + 1, acc)
  ELSE IF segs[i] = ".." /\ acc # <<>> /\ acc[Len(acc)] # ".."
    THEN NormFrom(segs, i + 1, SubSeq(acc, 1, Len(acc) - 1))
  ELSE NormFrom(segs, i + 1, Append(acc, segs[i]))

normpath(segs) == NormFrom(segs, 1, <<>>)

\* werkzeug's safe_join: the normalised path may not be ".." or start with "../"
safe_join(directory, path) ==
  LET n == normpath(path)
  IN IF n # <<>> /\ n[1] = ".." THEN [ok |-> FALSE, loc |-> <<>>]
     ELSE [ok |-> TRUE, loc |-> directory \o n]

isfile(fs, loc) == loc \in DOMAIN fs /\ fs[loc].exists

----------------------------------------------------------------------------
(* Responses *)

NoResp == [route |-> "none", url |-> <<>>, status |-> 0, body |-> <<>>, served |-> <<>>]
Response(route, url, status, body, served) ==
  [route |-> route, url |-> url, status |-> status, body |-> body, served |-> served]

INDEX_NOT_FOUND == <<"index.html not found">>
NOT_FOUND_PAGE == <<"Not Found">>
SERVER_ERROR_PAGE == <<"Internal Server Error">>

\* send_from_directory(directory, path), directory relative to app.root_path
send_from_directory(fs, route, directory, path) ==
  LET j == safe_join(directory, path)
  IN IF j.ok /\ isfile(fs, j.loc)
       THEN Response(route, path, 200, fs[j.loc].data, j.loc)
       ELSE Response(route, path, 404, NOT_FOUND_PAGE, <<>>)

\* os.environ.get('API_KEY', '')
GetKey(e) == IF e.set THEN e.val ELSE <<>>

\* index(), lines 7-37
index(e, fs) ==
  LET api_key == GetKey(e)
  IN IF ~fs[IndexLoc].exists THEN Response("index", <<>>, 404, INDEX_NOT_FOUND, <<>>)
     ELSE LET html_content == ReadText(fs[IndexLoc].data)
              r == render_template_string(InsertScript(html_content, injection_script(api_key)))
          IN IF r.ok THEN Response("index", <<>>, 200, r.out, <<>>)
             ELSE Response("index", <<>>, 500, SERVER_ERROR_PAGE, <<>>)

\* static_files(path), lines 40-42
static_files(fs, path) == send_from_directory(fs, "static_files", <<>>, path)

\* Flask's own static view: send_from_directory(app.static_folder, filename)
send_static_file(fs, filename) == send_from_directory(fs, "static", <<"static">>, filename)

(* The URL map in registration order.  Flask(__name__, static_url_path='')  *)
(* keeps the default static_folder 'static' and so registers the rule       *)
(* static_url_path + "/<path:filename>", that is "/<path:filename>", for    *)
(* its static view in the constructor, before the decorators of lines 6 and *)
(* 39 add theirs.  Of two rules of the same shape the one added first       *)
(* matches.                                                                 *)
url_map == <<[rule |-> "/<path:filename>", endpoint |-> "static"],
             [rule |-> "/", endpoint |-> "index"],
             [rule |-> "/<path:path>", endpoint |-> "static_files"]>>

RuleMatches(r, url) == IF r.rule = "/" THEN url = <<>> ELSE url # <<>>

\* the endpoint of the first rule that matches
Endpoint(url) ==
  LET hit == {i \in 1..Len(url_map) : RuleMatches(url_map[i], url)}
      first == CHOOSE i \in hit : \A k \in hit : i <= k
  IN url_map[first].endpoint

Dispatch(e, fs, url) ==
  LET ep == Endpoint(url)
  IN IF ep = "index" THEN index(e, fs)
     ELSE IF ep = "static" THEN send_static_file(fs, url)
     ELSE static_files(fs, url)

----------------------------------------------------------------------------
(* The main block, lines 49-56 *)

KeyPrefixLen == 4

\* the slip of printing the key without the slice
KeyPrefixWhole(k) == k

\* current_key[:4]
KeyPrefix(k) == SubSeq(k, 1, IF Len(k) < KeyPrefixLen THEN Len(k) ELSE KeyPrefixLen)

Banner(k) ==
  IF ~k.set \/ k.val = <<>> THEN [kind |-> "missing", shown |-> <<>>]
  ELSE [kind |-> "detected", shown |-> KeyPrefix(k.val)]

NoBanner == [kind |-> "none", shown |-> <<>>]

----------------------------------------------------------------------------
(* The state machine *)

InitOn(D, E) ==
  /\ pc = "boot"
  /\ env \in E
  /\ current_key = Unset
  /\ banner = NoBanner
  /\ \E d \in {Absent} \cup {File(x) : x \in D} :
     \E a, s \in BOOLEAN :
       files = [l \in Locs |->
                  IF l = IndexLoc THEN d
                  ELSE IF l = AssetLoc THEN (IF a THEN File(AssetData(l)) ELSE Absent)
                  ELSE IF l = StaticAssetLoc THEN (IF s THEN File(AssetData(l)) ELSE Absent)
                  ELSE File(AssetData(l))]
  /\ resp = NoResp

\* python app.py: the banner, then app.run
Startup ==
  /\ pc = "boot"
  /\ current_key' = env
  /\ banner' = Banner(env)
  /\ pc' = "serving"
  /\ resp' = NoResp
  /\ UNCHANGED <<env, files>>

\* the slip of a view that saves the injected document over index.html
RequestSavingDocument(url) ==
  /\ pc = "serving"
  /\ resp' = Dispatch(env, files, url)
  /\ files' = IF resp'.route = "index" /\ resp'.status = 200
                THEN [files EXCEPT ![IndexLoc] = File(resp'.body)]
                ELSE files
  /\ UNCHANGED <<pc, env, current_key, banner>>

\* one GET request, handled by the view the URL map selects
Request(url) ==
  /\ pc = "serving"
  /\ resp' = Dispatch(env, files, url)
  /\ UNCHANGED <<pc, env, current_key, banner, files>>

\* the environment of the process changes (API_KEY set or deleted)
SetEnv(e) ==
  /\ pc = "serving"
  /\ e # env
  /\ env' = e
  /\ resp' = NoResp
  /\ UNCHANGED <<pc, current_key, banner, files>>

\* the deployer puts index.html in place
WriteDoc(d) ==
  /\ pc = "serving"
  /\ ~files[IndexLoc].exists
  /\ files' = [files EXCEPT ![IndexLoc] = File(d)]
  /\ resp' = NoResp
  /\ UNCHANGED <<pc, env, current_key, banner>>

\* the deployer removes index.html
RemoveDoc ==
  /\ pc = "serving"
  /\ files[IndexLoc].exists
  /\ files' = [files EXCEPT ![IndexLoc] = Absent]
  /\ resp' = NoResp
  /\ UNCHANGED <<pc, env, current_key, banner>>

\* the deployer adds or removes an asset
ToggleAsset(l) ==
  /\ pc = "serving"
  /\ files' = [files EXCEPT ![l] = IF files[l].exists THEN Absent ELSE File(AssetData(l))]
  /\ resp' = NoResp
  /\ UNCHANGED <<pc, env, current_key, banner>>

NextOn(D, E) ==
  \/ Startup
  \/ \E url \in Urls : Request(url)
  \/ \E e \in E : SetEnv(e)
  \/ \E d \in D : WriteDoc(d)
  \/ RemoveDoc
  \/ \E l \in {AssetLoc, StaticAssetLoc} : ToggleAsset(l)

Init == InitOn(Docs, EnvValues)
Next == NextOn(Docs, EnvValues)
Spec == Init /\ [][Next]_vars

\* the program where index.html and API_KEY hold no template syntax and no
\* newline: rendering returns such a text as it is
InitPlain == InitOn(PlainDocs, PlainEnvValues)
NextPlain == NextOn(PlainDocs, PlainEnvValues)
SpecPlain == InitPlain /\ [][NextPlain]_vars

----------------------------------------------------------------------------
(* Properties.  resp is the response of the latest step, so in a state     *)
(* with a response env and files are those the request saw.                *)

IsIndexResp == resp.route = "index"
IsPathResp == resp.route \in {"static", "static_files"}
DocExists == files[IndexLoc].exists
Document == files[IndexLoc].data
Snippet == injection_script(GetKey(env))

FirstAt(s, pat) ==
  CHOOSE i \in 1..Len(s) : MatchAt(s, pat, i) /\ \A k \in 1..(i - 1) : ~MatchAt(s, pat, k)

\* d with snip right after the first pat, nothing else changed
InsertAfterFirst(d, pat, snip) ==
  LET i == FirstAt(d, pat)
  IN SubSeq(d, 1, i + Len(pat) - 1) \o snip \o SubSeq(d, i + Len(pat), Len(d))

\* the insertion the design describes: after the first head tag, else in front
InsertOnce(d, snip) ==
  IF Contains(d, HEAD) THEN InsertAfterFirst(d, HEAD, snip) ELSE snip \o d

\* the secret of the first script block of a body
EmbeddedSecret(body) ==
  LET i == FirstAt(body, <<SCRIPT_OPEN>>)
      j == CHOOSE k \in (i + 1)..Len(body) :
             body[k] = SCRIPT_CLOSE /\ \A m \in (i + 1)..(k - 1) : body[m] # SCRIPT_CLOSE
  IN SubSeq(body, i + 1, j - 1)

HasScript(body) == Contains(body, <<SCRIPT_OPEN>>) /\ Contains(body, <<SCRIPT_CLOSE>>)

\* the path names an existing file under the directory of index.html
NamesFileUnderRoot(path) ==
  LET n == normpath(path)
  IN (n = <<>> \/ n[1] # "..") /\ isfile(files, n)

IsPrefix(p, s) == Len(p) <= Len(s) /\ SubSeq(s, 1, Len(p)) = p

\* C1: for a document with a head tag the body of GET / is the document with
\* the snippet right after the first head tag and nothing else changed.
C1_FirstHeadOnly ==
  (IsIndexResp /\ DocExists /\ Contains(Document, HEAD)) =>
    (resp.status = 200 /\ resp.body = InsertAfterFirst(Document, HEAD, Snippet))

\* C2: for a document without a head tag the body of GET / is the snippet
\* followed by the document, verbatim.
C2_PrependVerbatim ==
  (IsIndexResp /\ DocExists /\ ~Contains(Document, HEAD)) =>
    (resp.status = 200 /\ resp.body = Snippet \o Document)

\* C3: the body of GET / is the text with the snippet inserted, returned
\* verbatim and not evaluated as a template.
C3_NotATemplate ==
  (IsIndexResp /\ DocExists) =>
    (resp.status = 200 /\ resp.body = InsertScript(ReadText(Document), Snippet))

\* C4: the secret in the snippet of a response is exactly the value API_KEY
\* has at the time of the request, the empty string if it is unset.
C4_SecretIsCurrentKey ==
  (IsIndexResp /\ resp.status = 200) =>
    (HasScript(resp.body) /\ EmbeddedSecret(resp.body) = GetKey(env))

\* C5: without index.html GET / is 404 "index.html not found"; whenever the
\* file exists GET / is 200 with the injected document.
C5_MissingDocIsLocal ==
  IsIndexResp =>
    IF DocExists
      THEN resp.status = 200 /\ resp.body = InsertOnce(Document, Snippet)
      ELSE resp.status = 404 /\ resp.body = INDEX_NOT_FOUND

\* C6: with API_KEY unset and index.html present GET / is 200 and the
\* embedded secret is the empty string.
C6_UnsetKeyIsEmpty ==
  (IsIndexResp /\ ~env.set /\ DocExists) =>
    (resp.status = 200 /\ HasScript(resp.body) /\ EmbeddedSecret(resp.body) = <<>>)

\* C7: a path that names an existing file under the directory of index.html
\* is answered 200 with that file's bytes.
C7_ExistingFileServed ==
  (IsPathResp /\ NamesFileUnderRoot(resp.url)) =>
    (resp.status = 200 /\ resp.body = files[normpath(resp.url)].data)

\* C8: GET /<path> never returns a file outside the serving root; a path
\* that names no existing file under the root, or leaves it, is answered 404.
C8_NoFileOutsideRoot ==
  IsPathResp =>
    /\ resp.status = 200 =>
         (resp.served # <<>> /\ resp.served[1] # ".." /\ resp.body = files[resp.served].data)
    /\ ~NamesFileUnderRoot(resp.url) => resp.status = 404

\* C9: a request changes neither the files nor API_KEY nor anything else the
\* process holds, and its response is determined by the files and the
\* environment at the time of the request.
C9_RequestsChangeNothing ==
  [][resp' # NoResp =>
       /\ files' = files
       /\ env' = env
       /\ <<pc, current_key, banner>>' = <<pc, current_key, banner>>
       /\ resp' = Dispatch(env, files, resp'.url)]_vars

C9_Witness ==
  /\ resp.route = "index" /\ resp.status = 200
  /\ env.set /\ env # current_key
  /\ DocExists /\ files[AssetLoc].exists

\* C10 as stated: for a non-empty key the banner reports it detected and
\* shows a prefix that is never the whole value; for an unset or empty key it
\* reports it missing and shows nothing.
C10_NeverFullValue ==
  pc = "serving" =>
    IF current_key.set /\ current_key.val # <<>>
      THEN /\ banner.kind = "detected"
           /\ IsPrefix(banner.shown, current_key.val)
           /\ banner.shown # current_key.val
      ELSE banner.kind = "missing" /\ banner.shown = <<>>

\* C10 amended: for a non-empty key the banner reports it detected and shows
\* its first four characters, which is the whole value when the key has at
\* most four characters and less than it otherwise; for an unset or empty
\* key it reports it missing and shows nothing.
C10_FirstFourChars ==
  pc = "serving" =>
    IF current_key.set /\ current_key.val # <<>>
      THEN /\ banner.kind = "detected"
           /\ IsPrefix(banner.shown, current_key.val)
           /\ Len(current_key.val) <= KeyPrefixLen => banner.shown = current_key.val
           /\ Len(current_key.val) > KeyPrefixLen =>
                (Len(banner.shown) = KeyPrefixLen /\ banner.shown # current_key.val)
      ELSE banner.kind = "missing" /\ banner.shown = <<>>

C10_Witness ==
  /\ pc = "serving"
  /\ current_key.set /\ Len(current_key.val) > KeyPrefixLen
  /\ banner.kind = "detected" /\ Len(banner.shown) = KeyPrefixLen

====
